---- MODULE Spec2Model ----
(***************************************************************************)
(* Model of resizepdf/resize_pdf.py: the command line driver (main), the   *)
(* Ghostscript adapter (compress_with_gs) and the in-process image         *)
(* rewriter (compress_with_pikepdf, _extract_image, _calc_scale).          *)
(*                                                                         *)
(* The document is an arena of objects (objs) addressed by index, a set of *)
(* XObject dictionaries (dicts, key = position) and a page list (pages,    *)
(* each page naming its XObject dictionary, 0 when it has none).           *)
(*                                                                         *)
(* Calls into libraries and the operating system (subprocess.run,          *)
(* Image.open, PdfImage.as_pil_image, resize, convert, save, pdf.save)     *)
(* succeed or raise; the model takes both outcomes.                        *)
(***************************************************************************)
EXTENDS Integers, Sequences, FiniteSets, TLC

VARIABLES
    args,              \* parsed command line: engine, quality, dpi
    pc,                \* position of the process
    dpi,               \* main: target DPI handed to the engines
    use_gs,            \* main: engine choice
    calls,             \* engine invocations so far, in order
    outFile,           \* who wrote the output file ("none" when absent)
    exitMsg,           \* why the process stopped early: sys.exit(1) or the call that raised
    gsInstalled,       \* whether "gs" is on PATH ("unknown" before engine selection)
    objs,              \* the document's object arena
    dicts,             \* XObject dictionaries: key position -> object index
    pages,             \* page -> XObject dictionary (0: none)
    pageIdx,           \* compress_with_pikepdf: current page
    keysLeft,          \* compress_with_pikepdf: keys of the page still to visit
    key,               \* compress_with_pikepdf: current key
    pil_image,         \* compress_with_pikepdf: decoded image or NoImage
    scale,             \* compress_with_pikepdf: result of _calc_scale
    tmpFiles,          \* temporary files present on disk
    tmpMade,           \* number of temporary files created so far
    exc,               \* an exception is propagating through the finally block
    jpeg_data,         \* compress_with_pikepdf: encoded bytes read back
    images_compressed, \* compress_with_pikepdf: counter
    decodes,           \* history of _extract_image calls
    substs             \* history of substitutions xobjects[key] = new_image

vars == <<args, pc, dpi, use_gs, calls, outFile, exitMsg, gsInstalled, objs, dicts, pages,
          pageIdx, keysLeft, key, pil_image, scale, tmpFiles, tmpMade, exc,
          jpeg_data, images_compressed, decodes, substs>>

pikeVars == <<objs, dicts, pageIdx, keysLeft, key, pil_image, scale, tmpFiles,
              tmpMade, exc, jpeg_data, images_compressed, decodes, substs>>

----------------------------------------------------------------------------
(* Bounds of the model *)

MaxPages == 2
MaxDim == 47
MaxDpi == 3

----------------------------------------------------------------------------
(* Arithmetic helpers *)

Max(a, b) == IF a >= b THEN a ELSE b

RECURSIVE Pow2(_)
Pow2(n) == IF n <= 0 THEN 1 ELSE 2 * Pow2(n - 1)

\* floor(log2(n)) for n >= 1
RECURSIVE ILog2(_)
ILog2(n) == IF n < 2 THEN 0 ELSE 1 + ILog2(n \div 2)

\* (r * 2^e) mod m
RECURSIVE DoubleMod(_, _, _)
DoubleMod(r, m, e) == IF e <= 0 THEN r % m ELSE DoubleMod((2 * r) % m, m, e - 1)

\* smallest j >= 0 with num * 2^j >= den
RECURSIVE BinadeBelowOne(_, _, _)
BinadeBelowOne(num, den, j) ==
    IF num * Pow2(j) >= den THEN j ELSE BinadeBelowOne(num, den, j + 1)

----------------------------------------------------------------------------
(* IEEE-754 double arithmetic of the resize computation.                    *)
(* A scale below 1.0 is the double nearest to num/den, num = 8 * target_dpi *)
(* and den = max(width, height): max(...) / 8.0 is exact and the division   *)
(* is correctly rounded.  int(x * scale) truncates the double nearest to    *)
(* x * scale.  When x*num/den is not an integer its distance to the next    *)
(* integer is at least 1/den and rounding cannot cross it.  When it is an   *)
(* integer N, the quotient was rounded (53-bit mantissa, remainder r of     *)
(* num * 2^e by den) and the product lands below N when the quotient was    *)
(* rounded down by more than half the spacing of the doubles below N.       *)

TruncPos(x, num, den) ==
    LET exact == (x * num) \div den
        j == IF num >= den THEN 0 - ILog2(num \div den)
                           ELSE BinadeBelowOne(num, den, 0)
        r == DoubleMod(num % den, den, 52 + j)
        k == ILog2(exact)
        short == IF exact = Pow2(k)
                 THEN 4 * x * r > den * Pow2(k + j)
                 ELSE 2 * x * r > den * Pow2(k + j)
    IN  IF (x * num) % den # 0 THEN exact
        ELSE IF r = 0 \/ 2 * r > den THEN exact
        ELSE IF short THEN exact - 1 ELSE exact

\* int(x * scale) for scale = double(num/den); int() truncates toward zero
TruncMul(x, num, den) ==
    IF num < 0 THEN 0 - TruncPos(x, 0 - num, den) ELSE TruncPos(x, num, den)

\* round-half-even of the exact product, Python's round()
RoundMul(x, num, den) ==
    LET a == IF num < 0 THEN 0 - num ELSE num
        q == (x * a) \div den
        twice == 2 * ((x * a) % den)
        m == IF twice > den \/ (twice = den /\ q % 2 = 1) THEN q + 1 ELSE q
    IN  IF num < 0 THEN 0 - m ELSE m

----------------------------------------------------------------------------
(* Quality policy *)

Qualities == {"high", "medium", "low"}
Engines == {"auto", "gs", "pikepdf"}

QUALITY_PRESETS ==
    [q \in Qualities |->
        CASE q = "high"   -> [gs_preset |-> "printer", jpeg_quality |-> 75, dpi |-> 300]
          [] q = "medium" -> [gs_preset |-> "ebook",   jpeg_quality |-> 55, dpi |-> 150]
          [] q = "low"    -> [gs_preset |-> "screen",  jpeg_quality |-> 35, dpi |-> 72]]

\* args.dpi: <<>> when --dpi is absent (argparse default None), else <<d>>
NoDpi == <<>>

\* main: dpi = args.dpi if args.dpi else QUALITY_PRESETS[args.quality][2]
\* (0 is falsy, so --dpi 0 selects the preset)
TargetDpi(a) ==
    IF a.dpi # NoDpi /\ a.dpi[1] # 0 THEN a.dpi[1] ELSE QUALITY_PRESETS[a.quality].dpi

----------------------------------------------------------------------------
(* Scale calculator.  A scale is the double nearest to num/den. *)

One == [num |-> 1, den |-> 1]

\* scale < 1.0
Below1(s) == s.num < s.den

\* current_effective_dpi = max(w, h) / 8.0 is <= target_dpi iff max(w, h) <= 8 * target_dpi
_calc_scale(width, height, target_dpi) ==
    IF Max(width, height) <= 8 * target_dpi
    THEN One
    ELSE [num |-> 8 * target_dpi, den |-> Max(width, height)]

\* variant: the product is rounded instead of truncated
NewDim_Rounded(x, s) == Max(1, RoundMul(x, s.num, s.den))

\* max(1, int(pil_image.width * scale))
NewDim(x, s) == Max(1, TruncMul(x, s.num, s.den))

----------------------------------------------------------------------------
(* Image decoder.  The image a JPEG or PdfImage decode yields is taken to    *)
(* have the size the stream dictionary declares (/Width, /Height) and the   *)
(* mode of the declared colour space; the raw routes build it from exactly  *)
(* these.                                                                   *)

NoImage == [mode |-> "None", width |-> 0, height |-> 0]
Raised == [mode |-> "raise", width |-> 0, height |-> 0]

Img(mode, width, height) == [mode |-> mode, width |-> width, height |-> height]

\* mode of the image a JPEG / PdfImage decode yields for the stored colour data
ModeOf(o) ==
    CASE o.cs = "DeviceRGB"  -> "RGB"
      [] o.cs = "DeviceGray" -> "L"
      [] o.cs = "Indexed"    -> "P"
      [] OTHER               -> "CMYK"

\* try: PdfImage(xobj).as_pil_image() except Exception: return None
PdfImageRoute(o, width, height, libOk) ==
    [routes |-> <<"PdfImage">>,
     result |-> IF libOk THEN Img(ModeOf(o), width, height) ELSE NoImage]

\* variant: data that is too short ends the decode at once
_extract_image_NoFallback(o, width, height, readOk, libOk) ==
    IF o.filter = "DCTDecode"
    THEN [routes |-> <<"JPEG">>,
          result |-> IF libOk THEN Img(ModeOf(o), width, height) ELSE Raised]
    ELSE IF ~readOk
    THEN [routes |-> <<>>, result |-> Raised]
    ELSE IF o.cs = "DeviceRGB" /\ o.bpc = 8
    THEN [routes |-> <<"raw">>,
          result |-> IF o.len >= width * height * 3
                     THEN Img("RGB", width, height) ELSE NoImage]
    ELSE IF o.cs = "DeviceGray" /\ o.bpc = 8
    THEN [routes |-> <<"raw">>,
          result |-> IF o.len >= width * height
                     THEN Img("L", width, height) ELSE NoImage]
    ELSE PdfImageRoute(o, width, height, libOk)

\* _extract_image: routes tried, and the image returned, None, or an exception
_extract_image(o, width, height, readOk, libOk) ==
    IF o.filter = "DCTDecode"
    THEN [routes |-> <<"JPEG">>,
          result |-> IF libOk THEN Img(ModeOf(o), width, height) ELSE Raised]
    ELSE IF ~readOk
    THEN [routes |-> <<>>, result |-> Raised]
    ELSE IF o.cs = "DeviceRGB" /\ o.bpc = 8 /\ o.len >= width * height * 3
    THEN [routes |-> <<"raw">>, result |-> Img("RGB", width, height)]
    ELSE IF o.cs = "DeviceGray" /\ o.bpc = 8 /\ o.len >= width * height
    THEN [routes |-> <<"raw">>, result |-> Img("L", width, height)]
    ELSE LET f == PdfImageRoute(o, width, height, libOk)
         IN  [routes |-> (IF o.cs \in {"DeviceRGB", "DeviceGray"} /\ o.bpc = 8
                          THEN <<"raw">> ELSE <<>>) \o f.routes,
              result |-> f.result]

----------------------------------------------------------------------------
(* Documents *)

Obj(stream, subtype, width, height, filter, cs, bpc, len) ==
    [stream |-> stream, subtype |-> subtype, width |-> width, height |-> height,
     filter |-> filter, cs |-> cs, bpc |-> bpc, len |-> len, jq |-> 0, made |-> FALSE]

\* new_image = pikepdf.Stream(pdf, jpeg_data) with its dictionary entries
NewImage(img, data) ==
    [stream |-> TRUE, subtype |-> "Image", width |-> img.width, height |-> img.height,
     filter |-> "DCTDecode", cs |-> "DeviceRGB", bpc |-> 8, len |-> 0,
     jq |-> data.jq, made |-> TRUE]

\* the objects the sample documents are built from
Catalog ==
    { Obj(TRUE, "Form", 0, 0, "FlateDecode", "None", 8, 0),
      Obj(TRUE, "Image", 800, 600, "FlateDecode", "DeviceRGB", 8, 800 * 600 * 3),
      Obj(TRUE, "Image", 800, 600, "FlateDecode", "DeviceRGB", 8, 800 * 600 * 3 - 1),
      Obj(TRUE, "Image", 800, 600, "FlateDecode", "DeviceGray", 8, 800 * 600 - 1),
      Obj(TRUE, "Image", 1000, 701, "DCTDecode", "DeviceRGB", 8, 0),
      Obj(TRUE, "Image", 0, 600, "FlateDecode", "DeviceRGB", 8, 0) }

\* variant: streams made by this run are passed over
Candidate_SkipMade(o) ==
    o.stream /\ o.subtype = "Image" /\ o.width # 0 /\ o.height # 0 /\ ~o.made

\* a candidate image: an image-subtype stream with nonzero width and height
Candidate(o) == o.stream /\ o.subtype = "Image" /\ o.width # 0 /\ o.height # 0

----------------------------------------------------------------------------
(* Initial states *)

DpiArgs == {NoDpi}

Layouts == [1..MaxPages -> 0..2]

InitDicts == << <<1, 2>>, <<2>> >>

InitLocals ==
    /\ pc = "main"
    /\ dpi = 0
    /\ use_gs = FALSE
    /\ calls = <<>>
    /\ outFile = "none"
    /\ exitMsg = "none"
    /\ gsInstalled = "unknown"
    /\ pageIdx = 0
    /\ keysLeft = <<>>
    /\ key = 0
    /\ pil_image = NoImage
    /\ scale = One
    /\ tmpFiles = {}
    /\ tmpMade = 0
    /\ exc = FALSE
    /\ jpeg_data = [jq |-> 0]
    /\ images_compressed = 0
    /\ decodes = <<>>
    /\ substs = <<>>

\* two objects; dictionary 1 holds both, dictionary 2 holds the second again;
\* each page uses dictionary 1, dictionary 2 or none
Init ==
    /\ args \in [engine : Engines, quality : Qualities, dpi : DpiArgs]
    /\ objs \in {<<a, b>> : a \in Catalog, b \in Catalog}
    /\ dicts = InitDicts
    /\ pages \in Layouts
    /\ InitLocals

----------------------------------------------------------------------------
(* main.  No file exists at the output path before the run; os.unlink of a  *)
(* temporary file the run has just created succeeds.                        *)

Exit1(msg) == pc' = "exit1" /\ exitMsg' = msg

\* an exception nobody catches ends the process with a traceback
Crash(call) == pc' = "crash" /\ exitMsg' = call

\* parse_args, input check, output path, dpi selection
main_parse ==
    /\ pc = "main"
    /\ \E inputIsFile \in BOOLEAN :
          IF ~inputIsFile
          THEN Exit1("input missing") /\ UNCHANGED dpi
          ELSE /\ dpi' = TargetDpi(args)
               /\ pc' = "select"
               /\ UNCHANGED exitMsg
    /\ UNCHANGED <<args, use_gs, calls, outFile, gsInstalled, pages, pikeVars>>

\* variant: a missing gs is not checked for an explicit --engine gs
GsRequiredMissing_Unchecked(engine, gsFound) == FALSE

\* if args.engine == "gs": if not has_ghostscript(): sys.exit(1)
GsRequiredMissing(engine, gsFound) == engine = "gs" /\ ~gsFound

\* engine selection; gsFound is the result of has_ghostscript()
main_select ==
    /\ pc = "select"
    /\ \E gsFound \in BOOLEAN :
          /\ gsInstalled' = IF gsFound THEN "yes" ELSE "no"
          /\ IF GsRequiredMissing(args.engine, gsFound)
             THEN Exit1("gs missing") /\ UNCHANGED use_gs
             ELSE /\ use_gs' = (IF args.engine = "gs" THEN TRUE
                                ELSE IF args.engine = "auto" THEN gsFound
                                ELSE FALSE)
                  /\ pc' = IF use_gs' THEN "gs" ELSE "pike"
                  /\ UNCHANGED exitMsg
    /\ UNCHANGED <<args, dpi, calls, outFile, pages, pikeVars>>

Call(engine) == [engine |-> engine, quality |-> args.quality, dpi |-> dpi]

GsOutcomes == {"ok", "CalledProcessError", "FileNotFoundError", "OSError"}

\* except (subprocess.CalledProcessError, FileNotFoundError): return False
GsCaught(outcome) == outcome \in {"CalledProcessError", "FileNotFoundError"}

\* compress_with_gs and main's handling of its result
compress_with_gs ==
    /\ pc = "gs"
    /\ calls' = Append(calls, Call("gs"))
    /\ \E outcome \in GsOutcomes :
          IF outcome = "ok"
          THEN outFile' = "gs" /\ pc' = "check" /\ UNCHANGED exitMsg
          ELSE IF GsCaught(outcome)
          THEN pc' = "pike" /\ UNCHANGED <<outFile, exitMsg>>
          ELSE Crash("gs") /\ UNCHANGED outFile
    /\ UNCHANGED <<args, dpi, use_gs, gsInstalled, pages, pikeVars>>

\* if not os.path.isfile(output_path): sys.exit(1)
main_check ==
    /\ pc = "check"
    /\ IF outFile = "none"
       THEN Exit1("no output")
       ELSE pc' = "done" /\ UNCHANGED exitMsg
    /\ UNCHANGED <<args, dpi, use_gs, calls, outFile, gsInstalled, pages, pikeVars>>

----------------------------------------------------------------------------
(* compress_with_pikepdf *)

mainVars == <<args, dpi, use_gs, gsInstalled, pages>>

\* imports, pikepdf.Pdf.open, images_compressed = 0
pike_open ==
    /\ pc = "pike"
    /\ calls' = Append(calls, Call("pikepdf"))
    /\ \E depsOk \in BOOLEAN, openOk \in BOOLEAN :
          IF ~depsOk
          THEN Exit1("deps missing") /\ UNCHANGED <<pageIdx, images_compressed>>
          ELSE IF ~openOk
          THEN Crash("open") /\ UNCHANGED <<pageIdx, images_compressed>>
          ELSE /\ pageIdx' = 1
               /\ images_compressed' = 0
               /\ pc' = "page"
               /\ UNCHANGED exitMsg
    /\ UNCHANGED <<mainVars, outFile, objs, dicts, keysLeft, key, pil_image, scale,
                   tmpFiles, tmpMade, exc, jpeg_data, decodes, substs>>

KeysOf(d) == [i \in 1..Len(dicts[d]) |-> i]

\* for page in pdf.pages: ... for key in list(xobjects.keys())
pike_page ==
    /\ pc = "page"
    /\ IF pageIdx > Len(pages)
       THEN pc' = "save" /\ UNCHANGED <<pageIdx, keysLeft>>
       ELSE IF pages[pageIdx] = 0
       THEN pageIdx' = pageIdx + 1 /\ UNCHANGED <<pc, keysLeft>>
       ELSE keysLeft' = KeysOf(pages[pageIdx]) /\ pc' = "key" /\ UNCHANGED pageIdx
    /\ UNCHANGED <<mainVars, calls, outFile, exitMsg, objs, dicts, key, pil_image,
                   scale, tmpFiles, tmpMade, exc, jpeg_data, images_compressed,
                   decodes, substs>>

Decode(p, k, o, r) ==
    [page |-> p, key |-> k, obj |-> o, routes |-> r.routes, result |-> r.result.mode]

\* next key of the page: the skip tests and _extract_image under try/except
pike_key ==
    /\ pc = "key"
    /\ IF keysLeft = <<>>
       THEN /\ pageIdx' = pageIdx + 1
            /\ pc' = "page"
            /\ UNCHANGED <<keysLeft, key, pil_image, decodes>>
       ELSE LET k == Head(keysLeft)
                o == dicts[pages[pageIdx]][k]
                xobj == objs[o]
            IN  /\ keysLeft' = Tail(keysLeft)
                /\ key' = k
                /\ UNCHANGED pageIdx
                /\ IF ~Candidate(xobj)
                   THEN UNCHANGED <<pc, pil_image, decodes>>
                   ELSE \E readOk \in BOOLEAN, libOk \in BOOLEAN :
                          LET r == _extract_image(xobj, xobj.width, xobj.height,
                                                  readOk, libOk)
                          IN  /\ decodes' = Append(decodes, Decode(pageIdx, k, o, r))
                              /\ IF r.result \in {Raised, NoImage}
                                 THEN UNCHANGED <<pc, pil_image>>
                                 ELSE pil_image' = r.result /\ pc' = "scale"
    /\ UNCHANGED <<mainVars, calls, outFile, exitMsg, objs, dicts, scale, tmpFiles,
                   tmpMade, exc, jpeg_data, images_compressed, substs>>

\* variant: an image that needs no resize is left as it is
AfterScale_SkipUnscaled(s) == IF Below1(s) THEN "convert" ELSE "key"

\* an image that needs no resize goes on to the JPEG recompression all the same
AfterScale(s) == "convert"

\* scale = _calc_scale(...); if scale < 1.0: pil_image.resize(...)
pike_scale ==
    /\ pc = "scale"
    /\ scale' = _calc_scale(pil_image.width, pil_image.height, dpi)
    /\ IF Below1(scale')
       THEN \E ok \in BOOLEAN :
              IF ok
              THEN /\ pil_image' = Img(pil_image.mode,
                                       NewDim(pil_image.width, scale'),
                                       NewDim(pil_image.height, scale'))
                   /\ pc' = "convert"
                   /\ UNCHANGED exitMsg
              ELSE Crash("resize") /\ UNCHANGED pil_image
       ELSE pc' = AfterScale(scale') /\ UNCHANGED <<pil_image, exitMsg>>
    /\ UNCHANGED <<mainVars, calls, outFile, objs, dicts, pageIdx, keysLeft, key,
                   tmpFiles, tmpMade, exc, jpeg_data, images_compressed, decodes,
                   substs>>

\* mode normalisation: white background paste for RGBA / P / LA, convert otherwise
pike_convert ==
    /\ pc = "convert"
    /\ IF pil_image.mode # "RGB"
       THEN \E ok \in BOOLEAN :
              IF ok
              THEN /\ pil_image' = Img("RGB", pil_image.width, pil_image.height)
                   /\ pc' = "tmp"
                   /\ UNCHANGED exitMsg
              ELSE Crash("convert") /\ UNCHANGED pil_image
       ELSE pc' = "tmp" /\ UNCHANGED <<pil_image, exitMsg>>
    /\ UNCHANGED <<mainVars, calls, outFile, objs, dicts, pageIdx, keysLeft, key,
                   scale, tmpFiles, tmpMade, exc, jpeg_data, images_compressed,
                   decodes, substs>>

\* with tempfile.NamedTemporaryFile(suffix=".jpg", delete=False) as tmp
pike_tmp ==
    /\ pc = "tmp"
    /\ \E ok \in BOOLEAN :
          IF ok
          THEN /\ tmpMade' = tmpMade + 1
               /\ tmpFiles' = tmpFiles \cup {tmpMade + 1}
               /\ pc' = "encode"
               /\ UNCHANGED exitMsg
          ELSE Crash("tmpfile") /\ UNCHANGED <<tmpMade, tmpFiles>>
    /\ UNCHANGED <<mainVars, calls, outFile, objs, dicts, pageIdx, keysLeft, key,
                   pil_image, scale, exc, jpeg_data, images_compressed, decodes,
                   substs>>

\* try: pil_image.save(...); jpeg_data = f.read()
pike_encode ==
    /\ pc = "encode"
    /\ \E ok \in BOOLEAN :
          IF ok
          THEN /\ jpeg_data' = [jq |-> QUALITY_PRESETS[args.quality].jpeg_quality]
               /\ exc' = FALSE
          ELSE exc' = TRUE /\ UNCHANGED jpeg_data
    /\ pc' = "unlink"
    /\ UNCHANGED <<mainVars, calls, outFile, exitMsg, objs, dicts, pageIdx, keysLeft,
                   key, pil_image, scale, tmpFiles, tmpMade, images_compressed,
                   decodes, substs>>

\* variant: the unlink sits after the try block instead of in a finally
Unlinked_OnSuccessOnly(files, tmp_path, raised) ==
    IF raised THEN files ELSE files \ {tmp_path}

\* finally: os.unlink(tmp_path), whether or not the try block raised
Unlinked(files, tmp_path, raised) == files \ {tmp_path}

\* the finally block; a pending exception then leaves the function
pike_unlink ==
    /\ pc = "unlink"
    /\ tmpFiles' = Unlinked(tmpFiles, tmpMade, exc)
    /\ exc' = FALSE
    /\ IF exc THEN Crash("encode") ELSE pc' = "subst" /\ UNCHANGED exitMsg
    /\ UNCHANGED <<mainVars, calls, outFile, objs, dicts, pageIdx, keysLeft, key,
                   pil_image, scale, tmpMade, jpeg_data, images_compressed, decodes,
                   substs>>

Subst(p, d, k, old, new, s) ==
    [page |-> p, dict |-> d, key |-> k, old |-> old, new |-> new, scale |-> s]

\* new_image = ...; xobjects[key] = new_image; images_compressed += 1
pike_subst ==
    /\ pc = "subst"
    /\ LET d == pages[pageIdx]
           new == Len(objs) + 1
       IN  /\ objs' = Append(objs, NewImage(pil_image, jpeg_data))
           /\ dicts' = [dicts EXCEPT ![d][key] = new]
           /\ substs' = Append(substs, Subst(pageIdx, d, key, dicts[d][key], new, scale))
    /\ images_compressed' = images_compressed + 1
    /\ pc' = "key"
    /\ UNCHANGED <<mainVars, calls, outFile, exitMsg, pageIdx, keysLeft, key,
                   pil_image, scale, tmpFiles, tmpMade, exc, jpeg_data, decodes>>

\* pdf.save(output_path, ...); pdf.close(); print
pike_save ==
    /\ pc = "save"
    /\ \E ok \in BOOLEAN :
          IF ok
          THEN outFile' = "pikepdf" /\ pc' = "check" /\ UNCHANGED exitMsg
          ELSE Crash("save") /\ UNCHANGED outFile
    /\ UNCHANGED <<mainVars, calls, pikeVars>>

----------------------------------------------------------------------------
(* Specifications *)

Next ==
    \/ main_parse
    \/ main_select
    \/ compress_with_gs
    \/ pike_open
    \/ pike_page
    \/ pike_key
    \/ pike_scale
    \/ pike_convert
    \/ pike_tmp
    \/ pike_encode
    \/ pike_unlink
    \/ pike_subst
    \/ pike_save
    \/ main_check

Spec == Init /\ [][Next]_vars

(* The in-process path on a one-image document, over a range of image sizes  *)
(* and --dpi values: the numerics of main's dpi selection, _calc_scale and   *)
(* the resize.                                                               *)

Dims == (1..MaxDim) \cup {600, 800}

NumDpiArgs == {NoDpi} \cup {<<d>> : d \in (-1)..MaxDpi}

InitNum ==
    /\ args \in [engine : {"pikepdf"}, quality : Qualities, dpi : NumDpiArgs]
    /\ objs \in {<<Obj(TRUE, "Image", w, h, "FlateDecode", "DeviceRGB", 8, w * h * 3)>> :
                    w \in Dims, h \in Dims}
    /\ dicts = << <<1>> >>
    /\ pages = <<1>>
    /\ InitLocals

NextNum ==
    \/ main_parse
    \/ main_select
    \/ pike_open
    \/ pike_page
    \/ pike_key
    \/ pike_scale
    \/ pike_convert
    \/ pike_tmp
    \/ pike_encode
    \/ pike_unlink
    \/ pike_subst
    \/ pike_save
    \/ main_check

SpecNum == InitNum /\ [][NextNum]_vars

----------------------------------------------------------------------------
(* Properties *)

Terminated == pc \in {"done", "exit1", "crash"}

EngineCalls(e) == {i \in DOMAIN calls : calls[i].engine = e}

NoGsCall == EngineCalls("gs") = {}

\* the in-process path has been entered, or is about to be
PikeChosen == pc = "pike" \/ (calls # <<>> /\ calls[1].engine = "pikepdf")

\* C1: no failure of a single image (decode, resize, colour-mode conversion,
\* JPEG encode) aborts the run of compress_with_pikepdf: the process never
\* ends on an exception raised by one of these steps.
C1_PerImageFailureNeverAborts ==
    ~(pc = "crash" /\ exitMsg \in {"resize", "convert", "encode"})

\* gs has been run and did not produce the output
GsFailed == calls # <<>> /\ calls[1].engine = "gs" /\ outFile # "gs"

\* C2: whenever gs is run and fails, the failure is caught and the in-process
\* path runs exactly once afterwards with the same quality and dpi; gs is
\* invoked at most once and never after the in-process path.
C2_GsFailureFallsBackOnce ==
    /\ GsFailed =>
          /\ ~(pc = "crash" /\ exitMsg = "gs")
          /\ \/ pc = "pike" /\ Len(calls) = 1
             \/ /\ Len(calls) = 2
                /\ calls[2] = [calls[1] EXCEPT !.engine = "pikepdf"]
    /\ Cardinality(EngineCalls("gs")) <= 1
    /\ \A i \in EngineCalls("pikepdf") : \A j \in EngineCalls("gs") : j < i

\* C3: --engine gs without gs installed exits with code 1 before any engine
\* runs and without output; --engine auto without gs installed goes to the
\* in-process path and is not stopped for the missing tool; --engine pikepdf
\* never invokes gs, installed or not.
C3_EngineSelection ==
    /\ (args.engine = "gs" /\ gsInstalled = "no") =>
          /\ pc = "exit1" /\ exitMsg = "gs missing"
          /\ calls = <<>> /\ outFile = "none"
    /\ (args.engine = "auto" /\ gsInstalled = "no") =>
          /\ NoGsCall /\ PikeChosen /\ exitMsg # "gs missing"
    /\ (args.engine = "pikepdf") =>
          /\ NoGsCall
          /\ gsInstalled # "unknown" => PikeChosen /\ exitMsg # "gs missing"

C3_Witness ==
    /\ args.engine = "gs" /\ gsInstalled = "no"
    /\ pc = "exit1" /\ calls = <<>>

\* C4: with --dpi d the engines run with target DPI d, without --dpi with the
\* preset's DPI (300/150/72); the quality tier handed to the engines and the
\* JPEG quality (75/55/35) stay those of the chosen preset.
C4_DpiOverridesOnlyDpi ==
    (pc # "main" /\ exitMsg # "input missing") =>
        /\ dpi = IF args.dpi = NoDpi
                 THEN (CASE args.quality = "high" -> 300
                         [] args.quality = "medium" -> 150
                         [] args.quality = "low" -> 72)
                 ELSE args.dpi[1]
        /\ \A i \in DOMAIN calls : calls[i].dpi = dpi /\ calls[i].quality = args.quality
        /\ jpeg_data.jq # 0 =>
              jpeg_data.jq = (CASE args.quality = "high" -> 75
                                [] args.quality = "medium" -> 55
                                [] args.quality = "low" -> 35)

\* the object handed to the latest _extract_image call
CurrentObj == objs[decodes[Len(decodes)].obj]

ScaleComputed ==
    \/ pc \in {"convert", "tmp", "encode", "unlink", "subst"}
    \/ pc = "crash" /\ exitMsg \in {"resize", "convert", "tmpfile", "encode"}

\* C5: the scale _calc_scale returns is > 0 and <= 1.0; it is 1.0 when
\* max(width, height)/8 <= target dpi and target dpi / (max(width, height)/8)
\* otherwise.
C5_ScaleInUnitInterval ==
    ScaleComputed =>
        LET m == Max(CurrentObj.width, CurrentObj.height)
        IN  /\ scale.num > 0
            /\ scale.num <= scale.den
            /\ m <= 8 * dpi => scale = One
            /\ m > 8 * dpi => scale.num * m = 8 * dpi * scale.den

\* C7 as stated: a resize (scale < 1.0, positive target dpi) yields
\* max(1, round(width*s)) by max(1, round(height*s)).
C7_ResizeRounds ==
    \A i \in DOMAIN substs :
        LET e == substs[i]
        IN  (Below1(e.scale) /\ dpi > 0) =>
               /\ objs[e.new].width
                     = Max(1, RoundMul(objs[e.old].width, e.scale.num, e.scale.den))
               /\ objs[e.new].height
                     = Max(1, RoundMul(objs[e.old].height, e.scale.num, e.scale.den))

\* y is max(1, floor(x * num / den)), or one less than the product when the
\* product is an exact integer and the double product falls short of it
Truncated(x, y, s) ==
    LET p == x * s.num
    IN  IF p % s.den = 0
        THEN y \in {Max(1, p \div s.den), Max(1, (p \div s.den) - 1)}
        ELSE y = Max(1, p \div s.den)

\* C7 (amended): a resize (scale < 1.0, positive target dpi) yields
\* max(1, int(width*s)) by max(1, int(height*s)): the product is truncated, not
\* rounded (and a product that is an exact integer N may come out as N - 1 in
\* double arithmetic); 800x600 at 72 gives 576x432, a 47-pixel longest side at
\* dpi 3 gives 23, not 24.
C7_ResizeTruncates ==
    \A i \in DOMAIN substs :
        LET e == substs[i]
            old == objs[e.old]
            new == objs[e.new]
        IN  (Below1(e.scale) /\ dpi > 0) =>
               /\ Truncated(old.width, new.width, e.scale)
               /\ Truncated(old.height, new.height, e.scale)
               /\ (old.width = 800 /\ old.height = 600 /\ dpi = 72) =>
                      (new.width = 576 /\ new.height = 432)
               /\ (old.width = 47 /\ old.height <= 47 /\ dpi = 3) => new.width = 23

C7_Witness ==
    \E i \in DOMAIN substs :
        LET e == substs[i]
        IN  /\ Below1(e.scale) /\ dpi > 0
            /\ objs[e.new].width
                  < Max(1, RoundMul(objs[e.old].width, e.scale.num, e.scale.den))
            /\ pc = "done"

\* C9: at most one temporary file exists at any time, and none exists outside
\* the encode step: not at the start of the next image and not once
\* compress_with_pikepdf has ended, normally or by an exception.
C9_TempFilesDeleted ==
    /\ Cardinality(tmpFiles) <= 1
    /\ pc \notin {"encode", "unlink"} => tmpFiles = {}

C9_Witness ==
    /\ pc = "crash" /\ exitMsg = "encode"
    /\ tmpMade = 2 /\ tmpFiles = {}

----------------------------------------------------------------------------
(* Properties of the document rewriting *)

Decoded(d) == d.result \notin {"None", "raise"}

\* substitutions made at the visit of key k on page p
SubstAt(p, k) == {i \in DOMAIN substs : substs[i].page = p /\ substs[i].key = k}

\* substitutions made under key k of dictionary d
SubstUnder(d, k) == {i \in DOMAIN substs : substs[i].dict = d /\ substs[i].key = k}

Last(S) == CHOOSE i \in S : \A j \in S : j <= i

\* the per-image steps after the decode are under way, or one of them raised
InImage ==
    \/ pc \in {"scale", "convert", "tmp", "encode", "unlink", "subst"}
    \/ pc = "crash" /\ exitMsg \in {"resize", "convert", "tmpfile", "encode"}

\* the loop over the pages has run to its end
LoopDone ==
    /\ EngineCalls("pikepdf") # {}
    /\ \/ pc \in {"save", "check", "done"}
       \/ pc = "crash" /\ exitMsg = "save"

\* C6: recompression is unconditional.  Every candidate image that decoded has
\* been replaced (all but the one being worked on, or the one whose step
\* raised), also when its scale is 1.0; the replacement sits under the original
\* key, is a DCTDecode / DeviceRGB / 8-bit image stream encoded at the preset's
\* JPEG quality, keeps width and height when the scale is 1.0, and the count of
\* compressed images equals the number of substitutions.
C6_RecompressionUnconditional ==
    /\ \A i \in DOMAIN decodes :
          Decoded(decodes[i]) =>
             \/ SubstAt(decodes[i].page, decodes[i].key) # {}
             \/ i = Len(decodes) /\ InImage
    /\ \A i \in DOMAIN substs :
          LET e == substs[i]
              new == objs[e.new]
              old == objs[e.old]
          IN  /\ new.stream /\ new.subtype = "Image"
              /\ new.filter = "DCTDecode" /\ new.cs = "DeviceRGB" /\ new.bpc = 8
              /\ new.jq = QUALITY_PRESETS[args.quality].jpeg_quality
              /\ Candidate(old)
              /\ e.dict = pages[e.page]
              /\ i = Last(SubstUnder(e.dict, e.key)) => dicts[e.dict][e.key] = e.new
              /\ e.scale = One => (new.width = old.width /\ new.height = old.height)
    /\ images_compressed = Len(substs)

C6_Witness ==
    /\ pc = "done"
    /\ \E i \in DOMAIN substs :
          /\ substs[i].scale = One
          /\ objs[substs[i].new].width = 800

\* a non-JPEG 8-bit DeviceRGB / DeviceGray image whose data is too short
ShortRaw(o) ==
    /\ o.filter # "DCTDecode" /\ o.bpc = 8
    /\ \/ o.cs = "DeviceRGB" /\ o.len < o.width * o.height * 3
       \/ o.cs = "DeviceGray" /\ o.len < o.width * o.height

C10_SharedImageOnce ==
    /\ \A i, j \in DOMAIN decodes : decodes[i].obj = decodes[j].obj => i = j
    /\ \A i \in DOMAIN decodes : ~objs[decodes[i].obj].made
    /\ \A i, j \in DOMAIN substs : substs[i].old = substs[j].old => i = j

\* C10 (amended): replacement is per reference.  Every substitution makes a
\* fresh stream and changes only the key of the dictionary it was made under;
\* once the loop has ended, every key holding a candidate image has been
\* decoded once on every page that reaches it, so an object held by two
\* dictionaries is decoded for each of them, and under a dictionary shared by
\* two pages the replacement made on the earlier page is decoded again on the
\* later one.
C10_ReplacedPerReference ==
    /\ \A i \in DOMAIN substs :
          /\ substs[i].new = Len(objs) - Len(substs) + i
          /\ objs[substs[i].new].made
    /\ \A d \in DOMAIN dicts : \A k \in DOMAIN dicts[d] :
          dicts[d][k] = IF SubstUnder(d, k) = {}
                        THEN InitDicts[d][k]
                        ELSE substs[Last(SubstUnder(d, k))].new
    /\ LoopDone =>
          \A p \in DOMAIN pages :
             pages[p] # 0 =>
                \A k \in DOMAIN dicts[pages[p]] :
                   Cardinality({i \in DOMAIN decodes :
                                   decodes[i].page = p /\ decodes[i].key = k})
                      = IF Candidate(objs[InitDicts[pages[p]][k]]) THEN 1 ELSE 0
    /\ \A i \in DOMAIN decodes :
          objs[decodes[i].obj].made =>
             \E j \in DOMAIN substs :
                /\ substs[j].new = decodes[i].obj
                /\ substs[j].dict = pages[decodes[i].page]
                /\ substs[j].key = decodes[i].key
                /\ substs[j].page < decodes[i].page

C10_Witness ==
    /\ pc = "done"
    /\ \E i \in DOMAIN decodes : objs[decodes[i].obj].made
    /\ \E i, j \in DOMAIN substs : i < j /\ substs[j].old = substs[i].new

====
